---- MODULE Spec2Model ----
(***************************************************************************)
(* Seat booking for webinars: the BookSeat use case (BookSeat.execute),    *)
(* the Webinar entity and the in-memory repositories it runs against.      *)
(* Every await of BookSeat.execute is a separate step, so invocations      *)
(* issued concurrently interleave at their awaits.                         *)
(***************************************************************************)
EXTENDS Integers, Sequences, FiniteSets, TLC

(* ---- bounds of the model ---- *)
MaxCalls == 2
NumUsers == 2
NumWebinars == 1
MaxSeats == 2
MaxParticipants == 4
MaxStored == 4

UserIds == 1..NumUsers
WebinarIds == 1..NumWebinars

(* ids a caller may ask for; 0 is the id of no webinar ('non-existent-id') *)
RequestIds == 0..NumWebinars

(* the organizer of the test fixture ('organizer-id') *)
OrganizerId == 0

VARIABLES database, users, participations, sentEmails, calls

vars == <<database, users, participations, sentEmails, calls>>

(* ---- values ---- *)
Null == [null |-> TRUE]
Undefined == [undefined |-> TRUE]

Email(id) == <<"email", id>>
Title(id) == <<"title", id>>

User(id) == [id |-> id, email |-> Email(id)]

(* props.participants is optional: <<>> when absent, <<list>> when set *)
Webinar(id, seats) ==
  [id |-> id, organizerId |-> OrganizerId, title |-> Title(id),
   seats |-> seats, participants |-> <<>>]

Participation(userId, webinarId) == [userId |-> userId, webinarId |-> webinarId]

Range(s) == {s[k] : k \in 1..Len(s)}

(* ---- InMemoryWebinarRepository ---- *)
(* Array.prototype.find: the first element with that id, or nothing *)
FindById(db, id) ==
  IF \E k \in 1..Len(db) : db[k].id = id
  THEN db[CHOOSE k \in 1..Len(db) :
            db[k].id = id /\ \A j \in 1..(k - 1) : db[j].id # id]
  ELSE Null

(* Array.prototype.findIndex, counted from 1: 0 when no element has that id *)
FindIndex(db, id) ==
  IF \E k \in 1..Len(db) : db[k].id = id
  THEN CHOOSE k \in 1..Len(db) :
         db[k].id = id /\ \A j \in 1..(k - 1) : db[j].id # id
  ELSE 0

Create(db, webinar) == Append(db, webinar)

(* an update that inserts the webinar when no stored one has its id *)
UpdateOrInsert(db, webinar) ==
  LET index == FindIndex(db, webinar.id)
  IN IF index # 0 THEN [db EXCEPT ![index] = webinar] ELSE Append(db, webinar)

Update(db, webinar) ==
  LET index == FindIndex(db, webinar.id)
  IN IF index # 0 THEN [db EXCEPT ![index] = webinar] ELSE db

(* ---- Webinar entity ---- *)
(* this.props.participants || [] *)
Participants(w) == IF w.participants = <<>> THEN <<>> ELSE w.participants[1]

(* Entity.update: the given props replace those of the same name *)
EntityUpdate(w, participants) == [w EXCEPT !.participants = <<participants>>]

(* the seat test off by one *)
HasAvailableSeatsInclusive(w) == Len(Participants(w)) <= w.seats

HasAvailableSeats(w) == Len(Participants(w)) < w.seats

IsParticipant(w, userId) == \E k \in 1..Len(Participants(w)) : Participants(w)[k] = userId

AddParticipant(w, userId) == EntityUpdate(w, Append(Participants(w), userId))

GetRemainingSeats(w) == w.seats - Len(Participants(w))

(* ---- InMemoryUserRepository ---- *)
UserFindById(us, id) ==
  IF \E k \in 1..Len(us) : us[k].id = id
  THEN us[CHOOSE k \in 1..Len(us) :
            us[k].id = id /\ \A j \in 1..(k - 1) : us[j].id # id]
  ELSE Null

(* ---- InMemoryParticipationRepository ---- *)
(* a lookup that forgets to filter by webinar *)
FindByWebinarIdUnfiltered(ps, webinarId) == ps

FindByWebinarId(ps, webinarId) ==
  SelectSeq(ps, LAMBDA p : p.webinarId = webinarId)

(* a save that stores nothing *)
SaveParticipationDropped(ps, p) == ps

SaveParticipation(ps, p) == Append(ps, p)

(* ---- mailer port ---- *)
MailerSend(emails, email) == Append(emails, email)

(* ---- BookSeat.execute, piece by piece ---- *)
(* the duplicate test written against the wrong field *)
IsAlreadyParticipatingWrongField(ps, userId) ==
  \E k \in 1..Len(ps) : ps[k].webinarId = userId

IsAlreadyParticipating(ps, userId) == \E k \in 1..Len(ps) : ps[k].userId = userId

(* the seat test off by one *)
HasNoSeatsOffByOne(ps, webinar) == Len(ps) > webinar.seats

HasNoSeats(ps, webinar) == Len(ps) >= webinar.seats

RemainingSeats(webinar, ps) == webinar.seats - Len(ps) - 1

(* the booking also cached in the webinar's participants list *)
BookedWebinarsCached(db, c) == Update(db, AddParticipant(c.webinar, c.userId))

(* the booking goes to the participation repository; the webinars stay as they are *)
BookedWebinars(db, c) == db

NewParticipation(c) == Participation(c.userId, c.webinarId)

(* the mail addressed to the participant instead of the organizer *)
OrganizerMailToParticipant(c, organizer) ==
  [to |-> Email(c.userId), title |-> c.webinar.title,
   remainingSeats |-> RemainingSeats(c.webinar, c.participations)]

OrganizerMail(c, organizer) ==
  [to |-> organizer.email, title |-> c.webinar.title,
   remainingSeats |-> RemainingSeats(c.webinar, c.participations)]

(* the error is raised but the function keeps running *)
ThrowAndContinue(c, err) == [c EXCEPT !.result = err]

(* a throw inside the async function: the promise rejects, nothing else runs *)
Throw(c, err) == [c EXCEPT !.pc = "done", !.result = err]

(* falling off the end of the async function: the promise resolves *)
Return(c) == [c EXCEPT !.pc = "done", !.result = "success"]

NewCall(webinarId, userId) ==
  [webinarId |-> webinarId, userId |-> userId, pc |-> "findById",
   result |-> "pending", webinar |-> Undefined, participations |-> <<>>,
   organizer |-> Undefined, saves |-> 0, sends |-> 0, sendFailed |-> FALSE,
   storedBefore |-> 0, sentIdx |-> 0]

(* the missing webinar reported with the wrong exception *)
AfterFindByIdWrongError(c, webinar) ==
  IF webinar = Null
  THEN Throw([c EXCEPT !.webinar = webinar], "NoSeatsAvailable")
  ELSE [c EXCEPT !.webinar = webinar, !.pc = "findByWebinarId"]

AfterFindById(c, webinar) ==
  IF webinar = Null
  THEN Throw([c EXCEPT !.webinar = webinar], "WebinarNotFound")
  ELSE [c EXCEPT !.webinar = webinar, !.pc = "findByWebinarId"]

(* the seat check made before the duplicate check *)
AfterFindByWebinarIdSeatsFirst(c, ps) ==
  LET c1 == [c EXCEPT !.participations = ps, !.pc = "save"]
  IN IF HasNoSeats(ps, c.webinar)
     THEN Throw(c1, "NoSeatsAvailable")
     ELSE IF IsAlreadyParticipating(ps, c.userId)
          THEN Throw(c1, "AlreadyParticipating")
          ELSE c1

AfterFindByWebinarId(c, ps) ==
  LET c1 == [c EXCEPT !.participations = ps, !.pc = "save"]
  IN IF IsAlreadyParticipating(ps, c.userId)
     THEN Throw(c1, "AlreadyParticipating")
     ELSE IF HasNoSeats(ps, c.webinar)
          THEN Throw(c1, "NoSeatsAvailable")
          ELSE c1

(* a missing organizer treated as an error *)
AfterFindOrganizerStrict(c, organizer) ==
  IF organizer = Null
  THEN [c EXCEPT !.organizer = organizer, !.pc = "done", !.result = "OrganizerNotFound"]
  ELSE [c EXCEPT !.organizer = organizer, !.pc = "send"]

AfterFindOrganizer(c, organizer) ==
  IF organizer = Null
  THEN Return([c EXCEPT !.organizer = organizer])
  ELSE [c EXCEPT !.organizer = organizer, !.pc = "send"]

(* ---- initial state: repositories as constructed, nothing booked ---- *)
(* webinar ids are interchangeable, so the databases list the webinars by *)
(* decreasing number of seats                                            *)
SeatsOf(n) ==
  {f \in [1..n -> 1..MaxSeats] : \A k \in 1..(n - 1) : f[k] >= f[k + 1]}

Databases ==
  UNION {{[k \in 1..n |-> Webinar(k, seats[k])] : seats \in SeatsOf(n)}
         : n \in 0..NumWebinars}

Init ==
  /\ database \in Databases
  /\ users \in {<<>>, <<User(OrganizerId)>>}
  /\ participations = <<>>
  /\ sentEmails = <<>>
  /\ calls = <<>>

(* ---- actions: one per await of BookSeat.execute ---- *)
(* the participations the store holds for a webinar *)
Stored(webinarId) == Len(FindByWebinarId(participations, webinarId))

Running(i) == calls[i].pc # "done"

Execute(webinarId, userId) ==
  /\ Len(calls) < MaxCalls
  /\ calls' = Append(calls, NewCall(webinarId, userId))
  /\ UNCHANGED <<database, users, participations, sentEmails>>

FindWebinar(i) ==
  /\ calls[i].pc = "findById"
  /\ calls' = [calls EXCEPT ![i] = AfterFindById(@, FindById(database, @.webinarId))]
  /\ UNCHANGED <<database, users, participations, sentEmails>>

FindParticipations(i) ==
  /\ calls[i].pc = "findByWebinarId"
  /\ calls' = [calls EXCEPT ![i] =
        AfterFindByWebinarId(@, FindByWebinarId(participations, @.webinarId))]
  /\ UNCHANGED <<database, users, participations, sentEmails>>

(* save, then the lookup of the organizer: nothing writes the user *)
(* repository, so the lookup reads the same whenever it runs        *)
Save(i) ==
  /\ calls[i].pc = "save"
  /\ participations' = SaveParticipation(participations, NewParticipation(calls[i]))
  /\ calls' = [calls EXCEPT ![i] =
        AfterFindOrganizer(
          [calls[i] EXCEPT !.saves = calls[i].saves + 1,
                           !.storedBefore = Stored(calls[i].webinarId)],
          UserFindById(users, calls[i].webinar.organizerId))]
  /\ database' = BookedWebinars(database, calls[i])
  /\ UNCHANGED <<users, sentEmails>>

SendOk(i) ==
  /\ calls[i].pc = "send"
  /\ sentEmails' = MailerSend(sentEmails, OrganizerMail(calls[i], calls[i].organizer))
  /\ calls' = [calls EXCEPT ![i] =
        Return([@ EXCEPT !.sends = @ + 1, !.sentIdx = Len(sentEmails) + 1])]
  /\ UNCHANGED <<database, users, participations>>

SendFail(i) ==
  /\ calls[i].pc = "send"
  /\ calls' = [calls EXCEPT ![i] =
        Throw([@ EXCEPT !.sends = @ + 1, !.sendFailed = TRUE], "MailerError")]
  /\ UNCHANGED <<database, users, participations, sentEmails>>

Next ==
  \/ \E w \in RequestIds, u \in UserIds : Execute(w, u)
  \/ \E i \in 1..Len(calls) : FindWebinar(i)
  \/ \E i \in 1..Len(calls) : FindParticipations(i)
  \/ \E i \in 1..Len(calls) : Save(i)
  \/ \E i \in 1..Len(calls) : SendOk(i)
  \/ \E i \in 1..Len(calls) : SendFail(i)

Spec == Init /\ [][Next]_vars

(* ---- sequential callers: the next call is issued once the last one ended ---- *)
SeqExecute(webinarId, userId) ==
  /\ \A i \in 1..Len(calls) : ~Running(i)
  /\ Execute(webinarId, userId)

SeqNext ==
  \/ \E w \in RequestIds, u \in UserIds : SeqExecute(w, u)
  \/ \E i \in 1..Len(calls) : FindWebinar(i)
  \/ \E i \in 1..Len(calls) : FindParticipations(i)
  \/ \E i \in 1..Len(calls) : Save(i)
  \/ \E i \in 1..Len(calls) : SendOk(i)
  \/ \E i \in 1..Len(calls) : SendFail(i)

SeqSpec == Init /\ [][SeqNext]_vars

(* ---- two webinars booked side by side ---- *)
PairIds == {1, 2}

PairInit ==
  /\ database \in {[k \in 1..2 |-> Webinar(k, seats[k])] : seats \in SeatsOf(2)}
  /\ users \in {<<>>, <<User(OrganizerId)>>}
  /\ participations = <<>>
  /\ sentEmails = <<>>
  /\ calls = <<>>

PairNext ==
  \/ \E w \in PairIds, u \in UserIds : Execute(w, u)
  \/ \E i \in 1..Len(calls) : FindWebinar(i)
  \/ \E i \in 1..Len(calls) : FindParticipations(i)
  \/ \E i \in 1..Len(calls) : Save(i)
  \/ \E i \in 1..Len(calls) : SendOk(i)
  \/ \E i \in 1..Len(calls) : SendFail(i)

PairSpec == PairInit /\ [][PairNext]_vars

(* ---- a webinar whose participants list grows by addParticipant ---- *)
ParticipantIds == UserIds \cup {OrganizerId}

EntityInit ==
  /\ database \in {<<Webinar(1, seats)>> : seats \in 1..MaxSeats}
  /\ users = <<>>
  /\ participations = <<>>
  /\ sentEmails = <<>>
  /\ calls = <<>>

WebinarAddParticipant(userId) ==
  /\ Len(Participants(database[1])) < MaxParticipants
  /\ database' = [database EXCEPT ![1] = AddParticipant(@, userId)]
  /\ UNCHANGED <<users, participations, sentEmails, calls>>

EntityNext == \E u \in ParticipantIds : WebinarAddParticipant(u)

EntitySpec == EntityInit /\ [][EntityNext]_vars

(* ---- the webinar repository under create and update ---- *)
RepoWebinars == {Webinar(id, seats) : id \in 1..(NumWebinars + 1), seats \in 1..MaxSeats}

RepoInit ==
  /\ database = <<>>
  /\ users = <<>>
  /\ participations = <<>>
  /\ sentEmails = <<>>
  /\ calls = <<>>

RepoCreate(webinar) ==
  /\ Len(database) < MaxStored
  /\ database' = Create(database, webinar)
  /\ UNCHANGED <<users, participations, sentEmails, calls>>

RepoUpdate(webinar) ==
  /\ database' = Update(database, webinar)
  /\ UNCHANGED <<users, participations, sentEmails, calls>>

RepoNext ==
  \/ \E w \in RepoWebinars : RepoCreate(w)
  \/ \E w \in RepoWebinars : RepoUpdate(w)

RepoSpec == RepoInit /\ [][RepoNext]_vars

(* ---- every awaited port call eventually returns, and the event loop then ---- *)
(* ---- resumes the invocation that awaits it                              ---- *)
Resume(i) ==
  /\ i \in 1..Len(calls)
  /\ \/ FindWebinar(i)
     \/ FindParticipations(i)
     \/ Save(i)
     \/ SendOk(i)
     \/ SendFail(i)

(* the invocations on one webinar and on ids of no webinar *)
LiveInit == Init /\ Len(database) <= 1

LiveSpec == LiveInit /\ [][Next]_vars /\ \A i \in 1..MaxCalls : WF_vars(Resume(i))

(* ---- helpers of the properties ---- *)
Failures == {"WebinarNotFound", "AlreadyParticipating", "NoSeatsAvailable"}

CallIds == 1..Len(calls)

AllDone == \A i \in CallIds : ~Running(i)

Count(s, x) == Cardinality({k \in 1..Len(s) : s[k] = x})

SameContent(s, t) ==
  /\ Len(s) = Len(t)
  /\ \A x \in Range(s) \cup Range(t) : Count(s, x) = Count(t, x)

Min(a, b) == IF a < b THEN a ELSE b

(* one whole invocation run with nothing interleaved *)
SeqExec(store, c) ==
  LET webinar == FindById(database, c.webinarId)
      ps == FindByWebinarId(store, c.webinarId)
  IN IF webinar = Null THEN [store |-> store, result |-> "WebinarNotFound"]
     ELSE IF IsAlreadyParticipating(ps, c.userId)
          THEN [store |-> store, result |-> "AlreadyParticipating"]
          ELSE IF HasNoSeats(ps, webinar)
               THEN [store |-> store, result |-> "NoSeatsAvailable"]
               ELSE [store |-> SaveParticipation(store, NewParticipation(c)),
                     result |-> "success"]

RECURSIVE SeqRun(_, _, _, _)
SeqRun(order, k, store, results) ==
  IF k > Len(calls) THEN [store |-> store, results |-> results]
  ELSE LET out == SeqExec(store, calls[order[k]])
       IN SeqRun(order, k + 1, out.store,
                 [results EXCEPT ![order[k]] = out.result])

Orders == {f \in [CallIds -> CallIds] : \A i, j \in CallIds : f[i] = f[j] => i = j}

(* C1: the participations stored for a webinar never outnumber its seats *)
CapacityInvariant ==
  \A k \in 1..Len(database) : Stored(database[k].id) <= database[k].seats

(* C2: the store holds at most one participation per (webinar, user) *)
DuplicateInvariant ==
  \A e \in RequestIds, r \in UserIds : Count(participations, Participation(r, e)) <= 1

(* C3: once all invocations ended, the stored participations and every       *)
(* invocation's result are those of running the invocations one after        *)
(* another in some order                                                     *)
Serializable ==
  (AllDone /\ \A i \in CallIds : calls[i].result # "MailerError") =>
    \E order \in Orders :
      LET out == SeqRun(order, 1, <<>>, [i \in CallIds |-> "pending"])
      IN /\ SameContent(out.store, participations)
         /\ \A i \in CallIds : out.results[i] = calls[i].result

(* C4: once all invocations for an existing webinar with S seats ended, made *)
(* by k pairwise distinct users, exactly min(S, k) participations are stored *)
ExactFill ==
  \A n \in 1..Len(database) :
    LET e == database[n].id
        cs == {i \in CallIds : calls[i].webinarId = e}
    IN (/\ \A i \in cs : ~Running(i)
        /\ \A i, j \in cs : calls[i].userId = calls[j].userId => i = j)
       => Stored(e) = Min(database[n].seats, Cardinality(cs))

(* C5: an invocation that ended in webinar not found, already participating  *)
(* or no seats available has saved no participation and sent no email        *)
NoPartialEffects ==
  \A i \in CallIds :
    calls[i].result \in Failures => calls[i].saves = 0 /\ calls[i].sends = 0

NoPartialEffectsWitness ==
  \E i, j \in CallIds :
    /\ calls[i].pc = "done" /\ calls[i].result \in {"NoSeatsAvailable", "AlreadyParticipating"}
    /\ calls[j].pc = "done" /\ calls[j].result = "success"
    /\ Len(participations) = 1

(* C6: an invocation whose mailer.send failed still ends as a success and    *)
(* its participation stays in the store                                      *)
NotifierFailureNotPropagated ==
  \A i \in CallIds :
    calls[i].sendFailed =>
      /\ calls[i].result = "success"
      /\ NewParticipation(calls[i]) \in Range(participations)

(* C7: the email of an invocation reports seats - N - 1 remaining seats, N   *)
(* being the participations stored for the webinar right before its save     *)
NotificationContent ==
  \A i \in CallIds :
    calls[i].sentIdx # 0 =>
      sentEmails[calls[i].sentIdx].remainingSeats =
        calls[i].webinar.seats - calls[i].storedBefore - 1

(* C8: when the webinar exists, the user is not among the participations     *)
(* read, seats remain and the organizer is not in the user repository, the   *)
(* invocation ends as a success, has saved its one participation and has     *)
(* never called mailer.send                                                  *)
OwnerMissingTolerance ==
  \A i \in CallIds :
    LET c == calls[i]
    IN (/\ c.pc = "done"
        /\ c.webinar \notin {Undefined, Null}
        /\ ~IsAlreadyParticipating(c.participations, c.userId)
        /\ ~HasNoSeats(c.participations, c.webinar)
        /\ UserFindById(users, c.webinar.organizerId) = Null)
       => /\ c.result = "success"
          /\ c.saves = 1
          /\ Participation(c.userId, c.webinarId) \in Range(participations)
          /\ c.sends = 0

OwnerMissingToleranceWitness ==
  \E i \in CallIds :
    /\ calls[i].pc = "done"
    /\ calls[i].organizer = Null
    /\ calls[i].result = "success"
    /\ sentEmails = <<>>

(* C9: a successful invocation has saved exactly one participation, the one  *)
(* of its user and webinar id, and, when the organizer resolves, has made    *)
(* exactly one mailer.send, addressed to the organizer's email; the store    *)
(* holds nothing but what the invocations saved                              *)
SuccessSideEffects ==
  /\ \A i \in CallIds :
       LET c == calls[i]
       IN c.result = "success" =>
            /\ c.saves = 1
            /\ Participation(c.userId, c.webinarId) \in Range(participations)
            /\ IF c.organizer = Null
               THEN c.sends = 0 /\ c.sentIdx = 0
               ELSE /\ c.sends = 1
                    /\ c.sentIdx \in 1..Len(sentEmails)
                    /\ sentEmails[c.sentIdx].to = Email(c.webinar.organizerId)
                    /\ sentEmails[c.sentIdx].title = c.webinar.title
  /\ \A i \in CallIds :
       /\ calls[i].saves <= 1 /\ calls[i].sends <= 1
       /\ Count(participations, Participation(calls[i].userId, calls[i].webinarId)) =
            Cardinality({j \in CallIds : /\ calls[j].saves = 1
                                         /\ calls[j].userId = calls[i].userId
                                         /\ calls[j].webinarId = calls[i].webinarId})
  /\ \A k \in 1..Len(participations) :
       \E i \in CallIds : /\ calls[i].saves = 1
                          /\ participations[k] = Participation(calls[i].userId, calls[i].webinarId)

SuccessSideEffectsWitness ==
  \E i, j \in CallIds :
    /\ i # j
    /\ calls[i].result = "success" /\ calls[i].sends = 1
    /\ calls[j].result = "success" /\ calls[j].sends = 1
    /\ Len(sentEmails) = 2

(* an invocation for a (webinar, user) pair that an earlier invocation booked *)
Reattempt(i) ==
  \E j \in 1..(i - 1) :
    /\ calls[j].result = "success"
    /\ calls[j].webinarId = calls[i].webinarId
    /\ calls[j].userId = calls[i].userId

(* C10: with sequential callers, an invocation for a (webinar, user) pair    *)
(* that an earlier invocation booked successfully writes nothing to the      *)
(* store, sends no email and ends with AlreadyParticipating                  *)
IdempotentReattempt ==
  [][\A i \in CallIds :
       (Running(i) /\ Reattempt(i)) =>
         /\ participations' = participations
         /\ sentEmails' = sentEmails
         /\ calls'[i].saves = 0 /\ calls'[i].sends = 0
         /\ (calls'[i].pc = "done" => calls'[i].result = "AlreadyParticipating")]_vars

IdempotentReattemptWitness ==
  \E i \in CallIds :
    /\ Reattempt(i)
    /\ calls[i].pc = "done"
    /\ calls[i].result = "AlreadyParticipating"
    /\ Stored(calls[i].webinarId) = 1
    /\ Stored(calls[i].webinarId) < FindById(database, calls[i].webinarId).seats

(* C11: when every port call returns, every invocation eventually ends, with *)
(* exactly one of success, webinar not found, AlreadyParticipating and       *)
(* NoSeatsAvailable, and it ends with webinar not found exactly when the     *)
(* webinar repository holds no webinar of the requested id                   *)
Outcomes == {"success", "WebinarNotFound", "AlreadyParticipating", "NoSeatsAvailable"}

FourOutcomeTermination ==
  /\ [](\A i \in CallIds :
          /\ (calls[i].pc = "done" /\ ~calls[i].sendFailed) => calls[i].result \in Outcomes
          /\ calls[i].pc # "done" => calls[i].result = "pending"
          /\ calls[i].pc = "done" =>
               (calls[i].result = "WebinarNotFound"
                  <=> ~\E k \in 1..Len(database) : database[k].id = calls[i].webinarId))
  /\ <>[](\A i \in CallIds : calls[i].pc = "done")

FourOutcomeTerminationWitness ==
  \E i, j \in CallIds :
    /\ calls[i].pc = "done" /\ calls[i].result = "WebinarNotFound"
    /\ calls[j].pc = "done" /\ calls[j].result = "success"
    /\ Len(participations) = 1

(* C12: the duplicate check comes before the seat check: an invocation that  *)
(* read a list holding its user ends with AlreadyParticipating, also when    *)
(* the list is full; NoSeatsAvailable is raised only when the user is not in *)
(* the list read and the list has at least as many entries as seats          *)
CheckPrecedence ==
  \A i \in CallIds :
    LET c == calls[i]
        isIn == \E k \in 1..Len(c.participations) : c.participations[k].userId = c.userId
    IN (c.pc = "done" /\ c.webinar \notin {Undefined, Null}) =>
         /\ isIn => c.result = "AlreadyParticipating"
         /\ c.result = "NoSeatsAvailable" =>
              ~isIn /\ Len(c.participations) >= c.webinar.seats
         /\ (~isIn /\ Len(c.participations) >= c.webinar.seats) =>
              c.result = "NoSeatsAvailable"

CheckPrecedenceWitness ==
  \E i \in CallIds :
    /\ calls[i].pc = "done"
    /\ calls[i].result = "AlreadyParticipating"
    /\ calls[i].webinar \notin {Undefined, Null}
    /\ Len(calls[i].participations) >= calls[i].webinar.seats

(* C13: an invocation sends its email only after its own save: whoever is    *)
(* sending or has sent has saved its participation, and the emails sent      *)
(* never outnumber the participations saved                                  *)
CommitBeforeNotify ==
  /\ Len(sentEmails) <= Len(participations)
  /\ \A i \in CallIds :
       (calls[i].pc = "send" \/ calls[i].sends > 0) =>
         /\ calls[i].saves = 1
         /\ Participation(calls[i].userId, calls[i].webinarId) \in Range(participations)

CommitBeforeNotifyWitness ==
  /\ Len(sentEmails) = 1
  /\ Len(participations) = 2
  /\ \E i \in CallIds : calls[i].pc = "send"

(* C16: the remaining seats reported by any email sent lie in 0 .. seats - 1 *)
RemainingSeatsInRange ==
  /\ \A i \in CallIds :
       calls[i].sentIdx # 0 =>
         /\ sentEmails[calls[i].sentIdx].remainingSeats >= 0
         /\ sentEmails[calls[i].sentIdx].remainingSeats <= calls[i].webinar.seats - 1
  /\ \A k \in 1..Len(sentEmails) : \E i \in CallIds : calls[i].sentIdx = k

RemainingSeatsInRangeWitness ==
  \E i \in CallIds :
    /\ calls[i].sentIdx # 0
    /\ Len(sentEmails) = 2
    /\ Stored(calls[i].webinarId) > calls[i].webinar.seats

(* C14: no step of any invocation, successful or failed, changes the webinar *)
(* repository or the props of the webinar the invocation read                *)
EventReadOnly ==
  [][/\ database' = database
     /\ \A i \in CallIds :
          calls[i].webinar \notin {Undefined, Null} =>
            /\ calls'[i].webinar = calls[i].webinar
            /\ calls'[i].webinar = FindById(database', calls[i].webinarId)]_vars

EventReadOnlyWitness ==
  \E i, j \in CallIds :
    /\ calls[i].result = "success"
    /\ calls[j].result \in Failures
    /\ FindById(database, calls[i].webinarId) = calls[i].webinar
    /\ calls[i].webinar.participants = <<>>

(* C15: a step of an invocation for webinar A leaves the participations of   *)
(* every other webinar as they are, reads A's participations only, and what  *)
(* it decides and stores is determined by A's participations alone           *)
OfWebinar(ps, webinarId) == SelectSeq(ps, LAMBDA p : p.webinarId = webinarId)

OfOthers(ps, webinarId) == SelectSeq(ps, LAMBDA p : p.webinarId # webinarId)

CrossEventIsolation ==
  [][\A i \in CallIds :
       calls'[i] # calls[i] =>
         LET c == calls[i]
             own == OfWebinar(participations, c.webinarId)
         IN /\ OfOthers(participations', c.webinarId) = OfOthers(participations, c.webinarId)
            /\ c.pc = "findByWebinarId" =>
                 /\ calls'[i] = AfterFindByWebinarId(c, own)
                 /\ participations' = participations
            /\ c.pc = "save" =>
                 /\ OfWebinar(participations', c.webinarId) =
                      Append(own, Participation(c.userId, c.webinarId))
                 /\ calls'[i].storedBefore = Len(own)
            /\ c.pc \notin {"findByWebinarId", "save"} =>
                 participations' = participations]_vars

CrossEventIsolationWitness ==
  \E i, j \in CallIds :
    /\ calls[i].webinarId # calls[j].webinarId
    /\ calls[i].result = "success"
    /\ calls[j].result = "success"
    /\ Len(participations) = 2

(* C17: for a webinar reached by addParticipant calls, getRemainingSeats is  *)
(* seats minus the number of participants, hasAvailableSeats holds exactly   *)
(* when that number is below seats, i.e. when getRemainingSeats is positive, *)
(* and each addParticipant(u) adds one participant, makes isParticipant(u)   *)
(* true and leaves seats and organizerId as they are                         *)
NumParticipants(w) == IF w.participants = <<>> THEN 0 ELSE Len(w.participants[1])

AccessorsAgree ==
  /\ [](\A k \in 1..Len(database) :
          LET w == database[k]
          IN /\ GetRemainingSeats(w) = w.seats - NumParticipants(w)
             /\ HasAvailableSeats(w) <=> NumParticipants(w) < w.seats
             /\ HasAvailableSeats(w) <=> GetRemainingSeats(w) > 0)
  /\ [][\A u \in ParticipantIds :
          WebinarAddParticipant(u) =>
            /\ NumParticipants(database'[1]) = NumParticipants(database[1]) + 1
            /\ IsParticipant(database'[1], u)
            /\ database'[1].seats = database[1].seats
            /\ database'[1].organizerId = database[1].organizerId
            /\ database'[1].id = database[1].id]_vars

AccessorsAgreeWitness ==
  /\ Len(database) = 1
  /\ NumParticipants(database[1]) > database[1].seats
  /\ GetRemainingSeats(database[1]) < 0
  /\ ~HasAvailableSeats(database[1])
  /\ \E j, k \in 1..Len(Participants(database[1])) :
       j # k /\ Participants(database[1])[j] = Participants(database[1])[k]

(* C18: update(w) replaces the first stored webinar of w's id and nothing    *)
(* else, keeps the length, and changes nothing when no stored webinar has    *)
(* that id; findById(id) is null exactly when no stored webinar has that id  *)
HasId(db, id) == \E k \in 1..Len(db) : db[k].id = id

FirstOfId(db, id) == CHOOSE k \in 1..Len(db) : db[k].id = id /\ \A j \in 1..(k - 1) : db[j].id # id

UpdateFrame ==
  /\ [](\A id \in 0..(NumWebinars + 1) :
          /\ FindById(database, id) = Null <=> ~HasId(database, id)
          /\ HasId(database, id) => FindById(database, id) = database[FirstOfId(database, id)])
  /\ [][\A w \in RepoWebinars :
          RepoUpdate(w) =>
            IF HasId(database, w.id)
            THEN /\ Len(database') = Len(database)
                 /\ database'[FirstOfId(database, w.id)] = w
                 /\ \A j \in 1..Len(database) :
                      j # FirstOfId(database, w.id) => database'[j] = database[j]
            ELSE database' = database]_vars

UpdateFrameWitness ==
  \E j, k \in 1..Len(database) :
    /\ j < k
    /\ database[j].id = database[k].id
    /\ database[j].seats # database[k].seats
    /\ \E n \in 1..Len(database) : database[n].id # database[j].id
    /\ FindById(database, database[k].id) = database[j]

TypeOK ==
  /\ Len(calls) <= MaxCalls
  /\ \A i \in 1..Len(calls) :
       calls[i].pc \in {"findById", "findByWebinarId", "save", "send", "done"}
====
